---- MODULE Spec2Model ----
(***************************************************************************)
(* Model of cookbook/tutorials/tsne_viz: indexer.py (discovery, chunking,  *)
(* embedding, persistence, CLI exit code) and viz_scatter.py (perplexity   *)
(* slider and the perplexity guard of run_tsne).                           *)
(*                                                                         *)
(* Strings that the code takes apart (extensions, file names, paths) are   *)
(* sequences of tokens, so that startswith, the glob suffix match and      *)
(* os.path.relpath are computed and not assumed.  A text is a record that  *)
(* names the file it was read from; the external splitter and the remote   *)
(* embedding service are inputs: what they return is chosen by \E.         *)
(***************************************************************************)
EXTENDS Integers, Sequences, FiniteSets, TLC

VARIABLES
  \* ---- environment of the indexer
  api_key,            \* os.getenv("GEMINI_API_KEY") is set and non-empty
  fs,                 \* the files under the scanned directory, in glob order
  file_types,         \* args.file_types
  dry_run,            \* args.dry_run
  outfile,            \* OUTPUT_JSON_FILE on disk
  \* ---- indexer.py: main / index_markdown_files / embed_content
  pc,
  ft,                 \* position of the discovery loop in file_types
  all_found_files,
  stats,
  i,                  \* offset of the outer batch loop
  all_chunks,
  ei,                 \* offset of the sub-batch loop of embed_content
  all_chunks_with_embeddings,
  all_processed_chunks,
  result,
  exit_code,
  calls,              \* history: every embedding request and its response
  \* ---- viz_scatter.py
  vpc,
  rows,               \* embeddings_df.shape[0] after load_embeddings
  slider,             \* min_value / max_value / value of the perplexity slider
  perplexity,         \* the perplexity argument of run_tsne
  tsne_perplexity,    \* the perplexity handed to TSNE(...)
  warned,             \* st.warning shown by run_tsne
  projections         \* number of projected points, -1 for None

ivars == <<api_key, fs, file_types, dry_run, outfile, pc, ft, all_found_files,
           stats, i, all_chunks, ei, all_chunks_with_embeddings,
           all_processed_chunks, result, exit_code, calls>>
vvars == <<vpc, rows, slider, perplexity, tsne_perplexity, warned, projections>>
vars  == <<ivars, vvars>>

\* ---------------------------------------------------------------- constants
CHUNK_SIZE         == 600
CHUNK_OVERLAP      == 200
BATCH_SIZE         == 20
GEMINI_BATCH_LIMIT == 100
DEFAULT_PERPLEXITY == 30
SLIDER_MIN         == 5
SLIDER_MAX         == 50

\* ------------------------------------------------------------------- bounds
MaxPad        == 19    \* one-chunk files between the two varied files
LastChunkLen  == 200   \* length of the last text the splitter returns
MaxRows       == 25    \* rows of the loaded table
MaxPerplexity == 50    \* perplexity passed to run_tsne directly
MaxFaults     == 2     \* embedding requests of one run that are not answered well

\* ------------------------------------------------------------------ helpers
Min(a, b) == IF a < b THEN a ELSE b
Max(a, b) == IF a > b THEN a ELSE b

\* Python's s[a:b] on a list, 0-based, b exclusive, clipped at the end
Slice(s, a, b) == SubSeq(s, a + 1, Min(b, Len(s)))

\* str.startswith / the suffix match of the glob pattern "*<file_type>"
StartsWith(s, p) == Len(p) <= Len(s) /\ SubSeq(s, 1, Len(p)) = p
EndsWith(s, p)   == Len(p) <= Len(s) /\ SubSeq(s, Len(s) - Len(p) + 1, Len(s)) = p

RECURSIVE Concat(_)
Concat(ss) == IF ss = <<>> THEN <<>> ELSE Head(ss) \o Concat(Tail(ss))

RECURSIVE Sum(_, _)
Sum(f, n) == IF n = 0 THEN 0 ELSE f[n] + Sum(f, n - 1)


\* ------------------------------------------------------- the scanned files
\* A file: its name as tokens, whether open/read succeeds, whether its
\* content is the empty string, whether the splitter raises on it, and the
\* number of texts the splitter returns for it.
MD  == <<".", "md">>
TXT == <<".", "txt">>

File(stem, ext, readable, empty, splits, n) ==
  [name |-> <<stem>> \o ext, readable |-> readable, empty |-> empty,
   splits |-> splits, nchunks |-> n]

\* the first file: missing, unreadable, or a text of 15 or 100 chunks
FirstFiles ==
  { File("a", MD, FALSE, FALSE, TRUE, 1),       \* open() or decoding fails
    File("a", MD, TRUE,  FALSE, TRUE, 15),
    File("a", MD, TRUE,  FALSE, TRUE, 100) }

\* the last file: zero-length, one the splitter raises on, one split into no
\* text at all, or a text of 15 chunks with either extension
LastFiles ==
  { File("z", MD,  TRUE, TRUE,  TRUE,  0),      \* zero-length file
    File("z", MD,  TRUE, FALSE, FALSE, 1),      \* the splitter raises
    File("z", MD,  TRUE, FALSE, TRUE,  0),
    File("z", MD,  TRUE, FALSE, TRUE,  15),
    File("z", TXT, TRUE, FALSE, TRUE,  15) }

PadStem == <<"p01", "p02", "p03", "p04", "p05", "p06", "p07", "p08", "p09",
             "p10", "p11", "p12", "p13", "p14", "p15", "p16", "p17", "p18",
             "p19", "p20", "p21", "p22", "p23", "p24">>

Pad(n) == [k \in 1..n |-> File(PadStem[k], MD, TRUE, FALSE, TRUE, 1)]

\* the directories: an optional first file, a run of one-chunk files, an
\* optional last file
Directories ==
  { h \o Pad(n) \o t :
      h \in {<<>>} \cup { <<f>> : f \in FirstFiles },
      n \in {0, MaxPad},
      t \in {<<>>} \cup { <<f>> : f \in LastFiles } }

FileTypeLists ==
  { << MD >>,
    << <<"md">>, MD >>,          \* 'md' and '.md': the same extension twice
    << MD, TXT >> }

\* the runs: every directory with every list of extensions, the list that
\* repeats an extension on the directories of at most two files
Inputs ==
  { in \in [fs : Directories, file_types : FileTypeLists] :
      in.file_types = << <<"md">>, MD >> => Len(in.fs) <= 2 }

DIRECTORY == <<".">>             \* args.directory, the default

\* ------------------------------------------------------------ file system
PathOf(f) == DIRECTORY \o <<"/">> \o f.name

FileAt(path) == CHOOSE f \in { fs[k] : k \in 1..Len(fs) } : PathOf(f) = path

\* glob.glob(f"{directory}/**/*{file_type}", recursive=True)
Glob(file_type) ==
  LET hit(f) == EndsWith(f.name, file_type) /\ Len(f.name) > Len(file_type)
      RECURSIVE sel(_)
      sel(k) == IF k > Len(fs) THEN <<>>
                ELSE (IF hit(fs[k]) THEN <<PathOf(fs[k])>> ELSE <<>>) \o sel(k + 1)
  IN sel(1)

\* os.path.relpath(file_path).replace("\\", "/") with the working directory
\* at the scanned directory
relpath(path) == IF StartsWith(path, <<".", "/">>) THEN SubSeq(path, 3, Len(path))
                 ELSE path

\* ----------------------------------------------------------- read and split
EmptyText == [src |-> <<>>, empty |-> TRUE]

\* read_text_file: the content, or "" when reading raises
read_text_file(file_path) ==
  LET f == FileAt(file_path)
  IN IF f.readable /\ ~f.empty THEN [src |-> f.name, empty |-> FALSE]
     ELSE EmptyText

\* RecursiveCharacterTextSplitter.split_text: the texts of one file, each of
\* CHUNK_SIZE characters but the last
SplitterRaises(text) ==
  \E k \in 1..Len(fs) : fs[k].name = text.src /\ ~fs[k].splits

SplitterOutput(text) ==
  LET f == CHOOSE g \in { fs[k] : k \in 1..Len(fs) } : g.name = text.src
  IN [k \in 1..f.nchunks |->
        [of |-> text.src, part |-> k,
         len |-> IF k = f.nchunks THEN LastChunkLen ELSE CHUNK_SIZE]]

\* f"{file_id}_{start_pos}-{end_pos}": the text after the last "_" holds no
\* "_", so the string determines the three parts; the id is their triple
chunk_id(file_id, start_pos, end_pos) ==
  [file_id |-> file_id, start |-> start_pos, end |-> end_pos]

start_pos_of(idx) == IF idx > 0 THEN idx * (CHUNK_SIZE - CHUNK_OVERLAP) ELSE 0

split_text(text, file_path) ==
  LET chunks  == SplitterOutput(text)
      file_id == relpath(file_path)
  IN [k \in 1..Len(chunks) |->
        LET start_pos == start_pos_of(k - 1)
            end_pos   == start_pos + chunks[k].len
        IN [id        |-> chunk_id(file_id, start_pos, end_pos),
            file_id   |-> file_id,
            content   |-> chunks[k],
            start_pos |-> start_pos,
            end_pos   |-> end_pos]]

\* ---------------------------------------------------------------- embedding
\* chunk["embedding"] = v
SetEmbedding(chunk, v) == ("embedding" :> v) @@ chunk

\* chunk.get("embedding") is truthy
HasEmbedding(chunk) == "embedding" \in DOMAIN chunk /\ chunk["embedding"] # <<>>

\* the values of the j-th vector of the response to request number call
Vec(call, j) == <<call, j>>

Outcomes == {"ok", "raise", "short", "long", "blank"}

\* response.embeddings for a request of n texts
Response(outcome, call, n) ==
  CASE outcome = "ok"    -> [j \in 1..n |-> Vec(call, j)]
    [] outcome = "short" -> [j \in 1..(n - 1) |-> Vec(call, j)]
    [] outcome = "long"  -> [j \in 1..(n + 1) |-> Vec(call, j)]
    [] outcome = "blank" -> [j \in 1..n |-> IF j = 1 THEN <<>> ELSE Vec(call, j)]
    [] OTHER             -> <<>>

\* lines 132-135: batch[j]["embedding"] = embedding.values for each returned
\* vector; an index past the batch raises IndexError
AssignRaises(batch, embeddings) == Len(embeddings) > Len(batch)

\* variant: the vectors are attached from the last to the first
AssignEmbeddings_Reversed(batch, embeddings) ==
  [j \in 1..Len(batch) |->
     IF j <= Len(embeddings)
     THEN SetEmbedding(batch[j], embeddings[Len(embeddings) - j + 1])
     ELSE batch[j]]

AssignEmbeddings(batch, embeddings) ==
  [j \in 1..Len(batch) |->
     IF j <= Len(embeddings) THEN SetEmbedding(batch[j], embeddings[j])
     ELSE batch[j]]

\* lines 137-142: every chunk of the batch gets an empty embedding
FailBatch(batch) == [j \in 1..Len(batch) |-> SetEmbedding(batch[j], <<>>)]

\* one iteration of the loop of embed_content on batch, request number call
EmbedBatch(batch, outcome, call) ==
  LET embeddings == Response(outcome, call, Len(batch))
  IN IF outcome = "raise" \/ AssignRaises(batch, embeddings)
     THEN FailBatch(batch)
     ELSE AssignEmbeddings(batch, embeddings)

\* variant: keeps every chunk that has the key, whatever its value
HasEmbeddingKey(chunk) == "embedding" \in DOMAIN chunk
ValidChunks_KeyOnly(chunks) == SelectSeq(chunks, HasEmbeddingKey)

\* line 228
ValidChunks(chunks) == SelectSeq(chunks, HasEmbedding)

\* ------------------------------------------------- the files of one batch
\* variant: a file without content is skipped without being counted
ProcessFile_SkipUncounted(acc, file_path) ==
  LET content == read_text_file(file_path)
  IN IF content.empty THEN acc
     ELSE IF SplitterRaises(content)
     THEN [acc EXCEPT !.files_failed = @ + 1]
     ELSE LET chunks == split_text(content, file_path)
          IN [acc EXCEPT !.all_chunks = @ \o chunks,
                         !.files_processed = @ + 1,
                         !.chunks_created = @ + Len(chunks)]

\* lines 200-221: one file of the batch; a file that cannot be read, is empty
\* or makes the splitter raise counts as failed
ProcessFile(acc, file_path) ==
  LET content == read_text_file(file_path)
  IN IF content.empty \/ SplitterRaises(content)
     THEN [acc EXCEPT !.files_failed = @ + 1]
     ELSE LET chunks == split_text(content, file_path)
          IN [acc EXCEPT !.all_chunks = @ \o chunks,
                         !.files_processed = @ + 1,
                         !.chunks_created = @ + Len(chunks)]

\* line 199: the loop over the files of the batch
RECURSIVE ProcessFiles(_, _)
ProcessFiles(batch, acc) ==
  IF batch = <<>> THEN acc
  ELSE ProcessFiles(Tail(batch), ProcessFile(acc, Head(batch)))

\* ------------------------------------------------------------ initial state
NoStats == [files_processed |-> 0, files_failed |-> 0, chunks_created |-> 0,
            chunks_indexed |-> 0]
NoResult == [status |-> "none"]
NoFile  == [exists |-> FALSE, by |-> "none", data |-> <<>>]
OldFile == [exists |-> TRUE,  by |-> "earlier", data |-> <<>>]
NoSlider == [min_value |-> 0, max_value |-> 0, value |-> 0]

IndexerIdle ==
  /\ api_key = FALSE /\ fs = <<>> /\ file_types = <<>> /\ dry_run = FALSE
  /\ outfile = NoFile /\ pc = "idle" /\ ft = 1 /\ all_found_files = <<>>
  /\ stats = NoStats /\ i = 0 /\ all_chunks = <<>> /\ ei = 0
  /\ all_chunks_with_embeddings = <<>> /\ all_processed_chunks = <<>>
  /\ result = NoResult /\ exit_code = -1 /\ calls = <<>>

ViewerIdle ==
  /\ vpc = "idle" /\ rows = 0 /\ slider = NoSlider /\ perplexity = 0
  /\ tsne_perplexity = 0 /\ warned = FALSE /\ projections = -1

\* the indexer process at the entry of main()
Init ==
  /\ api_key \in BOOLEAN
  /\ \E in \in Inputs : fs = in.fs /\ file_types = in.file_types
  /\ dry_run \in BOOLEAN
  /\ outfile \in {NoFile, OldFile}
  /\ pc = "main"
  /\ ft = 1
  /\ all_found_files = <<>>
  /\ stats = NoStats
  /\ i = 0
  /\ all_chunks = <<>>
  /\ ei = 0
  /\ all_chunks_with_embeddings = <<>>
  /\ all_processed_chunks = <<>>
  /\ result = NoResult
  /\ exit_code = -1
  /\ calls = <<>>
  /\ ViewerIdle

\* ------------------------------------------------------------------ indexer
\* main, lines 278-281: the credential check
Main ==
  /\ pc = "main"
  /\ IF ~api_key
     THEN pc' = "exited" /\ exit_code' = 1
     ELSE pc' = "discover" /\ exit_code' = exit_code
  /\ UNCHANGED <<api_key, fs, file_types, dry_run, outfile, ft, all_found_files,
                 stats, i, all_chunks, ei, all_chunks_with_embeddings,
                 all_processed_chunks, result, calls>>
  /\ UNCHANGED vvars

\* lines 169-170
NormalizeFileType(file_type) ==
  IF ~StartsWith(file_type, <<".">>) THEN <<".">> \o file_type ELSE file_type

\* lines 167-173: one iteration of the discovery loop
Discover ==
  /\ pc = "discover"
  /\ ft <= Len(file_types)
  /\ LET file_type == NormalizeFileType(file_types[ft])
         found     == Glob(file_type)
     IN all_found_files' = all_found_files \o found
  /\ ft' = ft + 1
  /\ UNCHANGED <<api_key, fs, file_types, dry_run, outfile, pc, stats, i,
                 all_chunks, ei, all_chunks_with_embeddings,
                 all_processed_chunks, result, exit_code, calls>>
  /\ UNCHANGED vvars

\* lines 175-190: nothing found is an error result without statistics
DiscoverEnd ==
  /\ pc = "discover"
  /\ ft > Len(file_types)
  /\ IF all_found_files = <<>>
     THEN /\ result' = [status |-> "error", message |-> "no_files"]
          /\ pc' = "returned"
     ELSE /\ result' = result
          /\ pc' = "batch"
  /\ stats' = NoStats
  /\ i' = 0
  /\ UNCHANGED <<api_key, fs, file_types, dry_run, outfile, ft, all_found_files,
                 all_chunks, ei, all_chunks_with_embeddings,
                 all_processed_chunks, exit_code, calls>>
  /\ UNCHANGED vvars

\* lines 193-224: the files of the outer batch at offset i are read and split
ReadBatch ==
  /\ pc = "batch"
  /\ i < Len(all_found_files)
  /\ LET batch == Slice(all_found_files, i, i + BATCH_SIZE)
         acc   == ProcessFiles(batch,
                    [all_chunks      |-> <<>>,
                     files_processed |-> stats.files_processed,
                     files_failed    |-> stats.files_failed,
                     chunks_created  |-> stats.chunks_created])
     IN /\ all_chunks' = acc.all_chunks
        /\ stats' = [stats EXCEPT !.files_processed = acc.files_processed,
                                  !.files_failed    = acc.files_failed,
                                  !.chunks_created  = acc.chunks_created]
        /\ IF acc.all_chunks # <<>>
           THEN pc' = "embed" /\ i' = i
           ELSE pc' = "batch" /\ i' = i + BATCH_SIZE
  /\ ei' = 0
  /\ all_chunks_with_embeddings' = <<>>
  /\ UNCHANGED <<api_key, fs, file_types, dry_run, outfile, ft, all_found_files,
                 all_processed_chunks, result, exit_code, calls>>
  /\ UNCHANGED vvars

\* requests of this run so far that were not answered by one vector per text
NumFaults == Cardinality({ k \in 1..Len(calls) : calls[k].outcome # "ok" })

\* embed_content, lines 113-146: one sub-batch is sent and answered
EmbedSubBatch ==
  /\ pc = "embed"
  /\ ei < Len(all_chunks)
  /\ \E outcome \in Outcomes :
       /\ outcome = "ok" \/ NumFaults < MaxFaults
       /\ LET batch == Slice(all_chunks, ei, ei + GEMINI_BATCH_LIMIT)
              texts == [j \in 1..Len(batch) |-> batch[j].content]
              call  == Len(calls) + 1
          IN /\ all_chunks_with_embeddings' =
                  all_chunks_with_embeddings \o EmbedBatch(batch, outcome, call)
             /\ calls' = Append(calls,
                  [texts      |-> texts,
                   outcome    |-> outcome,
                   embeddings |-> Response(outcome, call, Len(batch)),
                   nfiles     |-> Len(Slice(all_found_files, i, i + BATCH_SIZE))])
  /\ ei' = ei + GEMINI_BATCH_LIMIT
  /\ UNCHANGED <<api_key, fs, file_types, dry_run, outfile, pc, ft,
                 all_found_files, stats, i, all_chunks, all_processed_chunks,
                 result, exit_code>>
  /\ UNCHANGED vvars

\* lines 225-236: embed_content has returned; keep the chunks with embeddings
KeepValid ==
  /\ pc = "embed"
  /\ ei >= Len(all_chunks)
  /\ all_processed_chunks' =
       all_processed_chunks \o ValidChunks(all_chunks_with_embeddings)
  /\ i' = i + BATCH_SIZE
  /\ pc' = "batch"
  /\ UNCHANGED <<api_key, fs, file_types, dry_run, outfile, ft, all_found_files,
                 stats, all_chunks, ei, all_chunks_with_embeddings, result,
                 exit_code, calls>>
  /\ UNCHANGED vvars

\* open(OUTPUT_JSON_FILE, 'w') and json.dump: the write succeeds, open fails
\* and leaves the file alone, or the dump fails after the file was truncated
WriteOutcomes == {"ok", "open_fails", "dump_fails"}

\* variant: counts the chunks created instead of the chunks kept
ChunksIndexed_Created == stats.chunks_created

\* line 240
ChunksIndexed == Len(all_processed_chunks)

\* variant: the write does not look at dry_run
ShouldWrite_IgnoresDryRun == all_processed_chunks # <<>>

\* line 243
ShouldWrite == ~dry_run /\ all_processed_chunks # <<>>

\* lines 238-267: statistics, the write unless dry run, and the result
Finish ==
  /\ pc = "batch"
  /\ i >= Len(all_found_files)
  /\ LET final == [stats EXCEPT !.chunks_indexed = ChunksIndexed]
     IN /\ stats' = final
        /\ IF ShouldWrite
           THEN \E w \in WriteOutcomes :
                  /\ outfile' =
                       CASE w = "ok" ->
                              [exists |-> TRUE, by |-> "run",
                               data |-> all_processed_chunks]
                         [] w = "dump_fails" ->
                              [exists |-> TRUE, by |-> "partial", data |-> <<>>]
                         [] OTHER -> outfile
                  /\ result' =
                       IF w = "ok"
                       THEN [status |-> "success", message |-> "saved",
                             stats |-> final]
                       ELSE [status |-> "error", message |-> "write_failed",
                             stats |-> final]
           ELSE /\ outfile' = outfile
                /\ result' = [status |-> "success",
                              message |-> IF dry_run THEN "dry_run"
                                          ELSE "no_valid_embeddings",
                              stats |-> final]
  /\ pc' = "returned"
  /\ UNCHANGED <<api_key, fs, file_types, dry_run, ft, all_found_files, i,
                 all_chunks, ei, all_chunks_with_embeddings,
                 all_processed_chunks, exit_code, calls>>
  /\ UNCHANGED vvars

\* variant: a result that carries statistics exits 0
ExitCode_StatsMeansOk(res) == IF "stats" \in DOMAIN res THEN 0 ELSE 1

\* lines 287-294: sys.exit(1) unless the status is success
ExitCode(res) == IF res.status = "success" THEN 0 ELSE 1

\* main, lines 286-294: the exit code
Exit ==
  /\ pc = "returned"
  /\ exit_code' = ExitCode(result)
  /\ pc' = "exited"
  /\ UNCHANGED <<api_key, fs, file_types, dry_run, outfile, ft, all_found_files,
                 stats, i, all_chunks, ei, all_chunks_with_embeddings,
                 all_processed_chunks, result, calls>>
  /\ UNCHANGED vvars

Next ==
  \/ Main
  \/ Discover
  \/ DiscoverEnd
  \/ ReadBatch
  \/ EmbedSubBatch
  \/ KeepValid
  \/ Finish
  \/ Exit

Spec == Init /\ [][Next]_vars

\* ------------------------------------------------------------------- viewer
\* variant: the guard compares with < instead of <=
TooHigh_Strict(n, p) == n < p

\* lines 52-54: the perplexity handed to TSNE and whether a warning is shown
TooHigh(n, p) == n <= p

ClampedPerplexity(n, p) == IF TooHigh(n, p) THEN Max(1, n - 1) ELSE p

\* lines 97-98: the bounds and the initial value of the perplexity slider
SliderMax(n)   == Min(SLIDER_MAX, IF n > 1 THEN n - 1 ELSE SLIDER_MAX)
SliderValue(n) == Min(DEFAULT_PERPLEXITY, IF n > 1 THEN n - 1 ELSE DEFAULT_PERPLEXITY)

\* the slider widget accepts its arguments when min_value <= value <= max_value
SliderAccepts(sl) == sl.min_value <= sl.value /\ sl.value <= sl.max_value

\* run_tsne, lines 44-73.  TSNE.fit_transform fails when the perplexity is
\* not below the number of samples, and may fail for other reasons
RunTsne ==
  /\ vpc = "call"
  /\ IF rows = 0
     THEN /\ tsne_perplexity' = tsne_perplexity
          /\ warned' = warned
          /\ projections' = -1
     ELSE /\ tsne_perplexity' = ClampedPerplexity(rows, perplexity)
          /\ warned' = TooHigh(rows, perplexity)
          /\ \E fit_ok \in BOOLEAN :
               projections' = IF fit_ok /\ tsne_perplexity' < rows THEN rows ELSE -1
  /\ vpc' = "returned"
  /\ UNCHANGED <<rows, slider, perplexity>>
  /\ UNCHANGED ivars

\* lines 86-90: the table is loaded; an empty one ends the script's work
Load ==
  /\ vpc = "load"
  /\ vpc' = IF rows = 0 THEN "halted" ELSE "slider"
  /\ UNCHANGED <<rows, slider, perplexity, tsne_perplexity, warned, projections>>
  /\ UNCHANGED ivars

\* lines 94-101: the perplexity slider is built; the widget raises when its
\* initial value lies outside its bounds
BuildSlider ==
  /\ vpc = "slider"
  /\ slider' = [min_value |-> SLIDER_MIN, max_value |-> SliderMax(rows),
                value |-> SliderValue(rows)]
  /\ vpc' = IF SliderAccepts(slider') THEN "slide" ELSE "crashed"
  /\ UNCHANGED <<rows, perplexity, tsne_perplexity, warned, projections>>
  /\ UNCHANGED ivars

\* the slider returns its initial value or a value the user moved it to
Slide ==
  /\ vpc = "slide"
  /\ \E p \in slider.min_value..slider.max_value : perplexity' = p
  /\ vpc' = "call"
  /\ UNCHANGED <<rows, slider, tsne_perplexity, warned, projections>>
  /\ UNCHANGED ivars

\* the dashboard script, from load_embeddings on
InitDash ==
  /\ IndexerIdle
  /\ vpc = "load"
  /\ rows \in 0..MaxRows
  /\ slider = NoSlider
  /\ perplexity = 0
  /\ tsne_perplexity = 0
  /\ warned = FALSE
  /\ projections = -1

NextDash ==
  \/ Load
  \/ BuildSlider
  \/ Slide
  \/ RunTsne

SpecDash == InitDash /\ [][NextDash]_vars

\* run_tsne called on a table of any size with any perplexity
InitTsne ==
  /\ IndexerIdle
  /\ vpc = "call"
  /\ rows \in 0..MaxRows
  /\ slider = NoSlider
  /\ perplexity \in 1..MaxPerplexity
  /\ tsne_perplexity = 0
  /\ warned = FALSE
  /\ projections = -1

NextTsne == RunTsne

SpecTsne == InitTsne /\ [][NextTsne]_vars

\* =================================================================== claims
\* index_markdown_files has returned after discovering at least one path
Returned == pc = "returned" /\ all_found_files # <<>>

NonEmptyEmbedding(c) == "embedding" \in DOMAIN c /\ Len(c["embedding"]) > 0

\* the persisted chunks whose vector came from request number k, in order
FromCall(k) ==
  LET test(c) == NonEmptyEmbedding(c) /\ c["embedding"][1] = k
  IN SelectSeq(all_processed_chunks, test)

Contents(chunks) == [j \in 1..Len(chunks) |-> chunks[j].content]

\* a path whose file is read, is not empty and is split without an exception
Processable(path) ==
  \E k \in 1..Len(fs) :
    /\ DIRECTORY \o <<"/">> \o fs[k].name = path
    /\ fs[k].readable /\ ~fs[k].empty /\ fs[k].splits

ChunkCountOf(path) ==
  LET f == CHOOSE g \in { fs[k] : k \in 1..Len(fs) } :
             DIRECTORY \o <<"/">> \o g.name = path
  IN f.nchunks

\* ------------------------------------------------------------------------ C1
\* C1: at every point of a run, no chunk of the running result list
\* all_processed_chunks lacks an embedding or has an empty one, and every
\* chunk the run wrote to the output file has a non-empty embedding,
\* whatever the embedding service answered.
C1_PersistedChunksHaveEmbedding ==
  /\ \A k \in 1..Len(all_processed_chunks) :
       NonEmptyEmbedding(all_processed_chunks[k])
  /\ outfile.by = "run" =>
       \A k \in 1..Len(outfile.data) : NonEmptyEmbedding(outfile.data[k])

C1_Witness ==
  /\ outfile.by = "run"
  /\ Len(outfile.data) > 0
  /\ \E k \in 1..Len(calls) : calls[k].outcome = "blank"
  /\ \E k \in 1..Len(calls) : calls[k].outcome = "short"

\* ------------------------------------------------------------------------ C2
\* C2 as stated: a dry run leaves the output file as it was and its result
\* has status success, for every set of discovered files.
C2_DryRunAlwaysSuccess ==
  (dry_run /\ pc = "returned") =>
     (outfile.by \in {"none", "earlier"} /\ result.status = "success")

\* C2 amended: in a dry run no step creates, truncates or writes the output
\* file, and the result has status success when at least one path was
\* discovered, status error when none was.
C2_DryRunNeverWrites ==
  [][ /\ dry_run => outfile' = outfile
      /\ (dry_run /\ pc' = "returned") =>
           result'.status = IF all_found_files' = <<>> THEN "error" ELSE "success"
    ]_vars

C2_Witness ==
  /\ dry_run
  /\ pc = "returned"
  /\ stats.chunks_indexed > 0
  /\ result.status = "success"
  /\ outfile = OldFile

\* ------------------------------------------------------------------------ C3
\* the positions of request k whose chunk ends with a non-empty embedding
EmbeddedAt(k) ==
  IF calls[k].outcome = "raise" \/ Len(calls[k].embeddings) > Len(calls[k].texts)
  THEN {}
  ELSE { j \in 1..Len(calls[k].embeddings) : calls[k].embeddings[j] # <<>> }

\* C3: when the run has returned, no chunk of a sub-batch whose request
\* raised is persisted, every chunk of a sub-batch answered by one vector per
\* text is persisted, chunks_indexed is the number of chunks that got a
\* non-empty embedding, and files_processed and chunks_created are what the
\* files alone determine (their values in a run without embedding failures);
\* an outer batch of 115 chunks whose second request (15 texts) raises gives
\* chunks_indexed = 100 with the first 100 chunks persisted.
C3_RaisedSubBatchDropped ==
  Returned =>
    /\ \A k \in 1..Len(calls) :
         /\ calls[k].outcome = "raise" => FromCall(k) = <<>>
         /\ calls[k].outcome = "ok" => Contents(FromCall(k)) = calls[k].texts
    /\ stats.chunks_indexed =
         Sum([k \in 1..Len(calls) |-> Cardinality(EmbeddedAt(k))], Len(calls))
    /\ stats.files_processed =
         Cardinality({ k \in 1..Len(all_found_files) :
                         Processable(all_found_files[k]) })
    /\ stats.chunks_created =
         Sum([k \in 1..Len(all_found_files) |->
                IF Processable(all_found_files[k])
                THEN ChunkCountOf(all_found_files[k]) ELSE 0],
             Len(all_found_files))
    /\ ( /\ Len(calls) = 2
         /\ Len(calls[1].texts) = 100 /\ calls[1].outcome = "ok"
         /\ Len(calls[2].texts) = 15  /\ calls[2].outcome = "raise" )
       => /\ stats.chunks_indexed = 100
          /\ Contents(all_processed_chunks) = calls[1].texts

C3_Witness ==
  /\ Returned
  /\ Len(calls) = 2
  /\ Len(calls[1].texts) = 100 /\ calls[1].outcome = "ok"
  /\ Len(calls[2].texts) = 15  /\ calls[2].outcome = "raise"
  /\ stats.chunks_created = 115
  /\ stats.chunks_indexed = 100

\* ------------------------------------------------------------------------ C4
\* the write of the output file was attempted and did not succeed
WriteFailed == ~dry_run /\ all_processed_chunks # <<>> /\ outfile.by # "run"

\* C4: the process exits with 1 exactly when the credential is missing, no
\* file matched, or the write failed, and with 0 otherwise; without the
\* credential nothing was discovered, requested or written; with no match
\* the result is an error without statistics; with a failed write it is an
\* error that carries the statistics.
C4_ExitCode ==
  pc = "exited" =>
    /\ exit_code \in {0, 1}
    /\ exit_code = 1 <=> (~api_key \/ all_found_files = <<>> \/ WriteFailed)
    /\ ~api_key =>
         /\ ft = 1 /\ all_found_files = <<>> /\ calls = <<>>
         /\ outfile.by \in {"none", "earlier"}
         /\ result = NoResult
    /\ (api_key /\ all_found_files = <<>>) =>
         /\ result.status = "error"
         /\ "stats" \notin DOMAIN result
    /\ (api_key /\ all_found_files # <<>> /\ WriteFailed) =>
         /\ result.status = "error"
         /\ "stats" \in DOMAIN result
         /\ result["stats"] = stats

C4_Witness ==
  /\ pc = "exited"
  /\ exit_code = 1
  /\ api_key
  /\ WriteFailed
  /\ result["stats"].chunks_indexed > 0

\* ------------------------------------------------------------------------ C5
\* the chunks that embed_content returns for the sub-batch at offset a
SubBatchAt(a) == Slice(all_chunks_with_embeddings, a, a + GEMINI_BATCH_LIMIT)

\* C5: when embed_content has returned, every sub-batch is all-or-nothing
\* (all its chunks have a non-empty embedding or all have an empty one), and
\* a sub-batch whose request raised or was answered by a number of vectors
\* other than the number of texts has only empty embeddings.
C5_SubBatchAllOrNothing ==
  (pc = "embed" /\ ei >= Len(all_chunks)) =>
    \A b \in 0..((Len(all_chunks_with_embeddings) - 1) \div GEMINI_BATCH_LIMIT) :
      LET sub  == SubBatchAt(b * GEMINI_BATCH_LIMIT)
          call == calls[Len(calls) - ((Len(all_chunks_with_embeddings) - 1)
                                        \div GEMINI_BATCH_LIMIT) + b]
      IN /\ \/ \A j \in 1..Len(sub) : NonEmptyEmbedding(sub[j])
            \/ \A j \in 1..Len(sub) :
                 "embedding" \in DOMAIN sub[j] /\ sub[j]["embedding"] = <<>>
         /\ (call.outcome = "raise" \/ Len(call.embeddings) # Len(call.texts)) =>
              \A j \in 1..Len(sub) :
                "embedding" \in DOMAIN sub[j] /\ sub[j]["embedding"] = <<>>

\* ------------------------------------------------------------------------ C6
\* C6: no two chunks of the run's result list, nor of the written file, have
\* the same id, whatever the list of extensions; and the chunks of one file
\* have pairwise distinct ids, chunk number n starting at 0 for n = 0 and at
\* n * (CHUNK_SIZE - CHUNK_OVERLAP) otherwise.
C6_ChunkIdsUnique ==
  /\ \A j, k \in 1..Len(all_processed_chunks) :
       j # k => all_processed_chunks[j].id # all_processed_chunks[k].id
  /\ \A j, k \in 1..Len(outfile.data) :
       j # k => outfile.data[j].id # outfile.data[k].id
  /\ pc = "batch" =>
       \A f \in 1..Len(fs) :
         LET path == DIRECTORY \o <<"/">> \o fs[f].name
             set  == split_text(read_text_file(path), path)
         IN Processable(path) =>
              \A j, k \in 1..Len(set) :
                /\ set[j].start_pos =
                     (IF j = 1 THEN 0 ELSE (j - 1) * (CHUNK_SIZE - CHUNK_OVERLAP))
                /\ j # k => set[j].id # set[k].id

\* ------------------------------------------------------------------------ C7
\* C7: for a table of n >= 1 rows and a requested perplexity p, run_tsne
\* hands p to the reduction when p < n and max(1, n - 1) when p >= n, warns
\* exactly in the second case, and for n >= 2 hands over a value below n;
\* p = 40 with n = 20 gives 19, and a projection has one point per row.
C7_PerplexityClamp ==
  (vpc = "returned" /\ rows >= 1) =>
    /\ perplexity < rows  => (tsne_perplexity = perplexity /\ ~warned)
    /\ perplexity >= rows =>
         /\ tsne_perplexity = (IF rows - 1 >= 1 THEN rows - 1 ELSE 1)
         /\ warned
    /\ rows >= 2 => tsne_perplexity < rows
    /\ (perplexity = 40 /\ rows = 20) => tsne_perplexity = 19
    /\ projections # -1 => projections = rows

C7_Witness ==
  /\ vpc = "returned"
  /\ rows = 20
  /\ perplexity = 40
  /\ tsne_perplexity = 19
  /\ warned
  /\ projections = 20

\* ------------------------------------------------------------------------ C8
\* the chunks created in the run: the chunk sets of the processed files in
\* the order of discovery
CreatedChunks ==
  Concat([k \in 1..Len(all_found_files) |->
            IF Processable(all_found_files[k])
            THEN split_text(read_text_file(all_found_files[k]), all_found_files[k])
            ELSE <<>>])

WithoutEmbedding(c) == [x \in (DOMAIN c) \ {"embedding"} |-> c[x]]

\* the place, among all texts sent in the run, of the text whose vector the
\* persisted chunk c carries
SentPosition(c) ==
  Sum([m \in 1..Len(calls) |-> Len(calls[m].texts)], c["embedding"][1] - 1)
    + c["embedding"][2]

\* C8: when the run has returned, the persisted chunks are, in order, a
\* subsequence of the chunks created in discovery and split order (each is
\* the created chunk at the place its text was sent from, and these places
\* increase along the persisted list); the texts
\* of all requests, one after the other, are exactly the texts of the created
\* chunks, so each created chunk was sent once; no request has more than
\* 100 texts nor comes from an outer batch of more than 20 files; and in a
\* request answered by one vector per text the chunk of text number j
\* carries vector number j.
C8_OrderAndPosition ==
  Returned =>
    /\ LET created == CreatedChunks
           place   == [k \in 1..Len(all_processed_chunks) |->
                         SentPosition(all_processed_chunks[k])]
       IN /\ Concat([k \in 1..Len(calls) |-> calls[k].texts]) = Contents(created)
          /\ \A k \in 1..Len(all_processed_chunks) :
               /\ place[k] \in 1..Len(created)
               /\ created[place[k]] = WithoutEmbedding(all_processed_chunks[k])
               /\ k > 1 => place[k - 1] < place[k]
    /\ \A k \in 1..Len(calls) :
         /\ Len(calls[k].texts) <= GEMINI_BATCH_LIMIT
         /\ calls[k].nfiles <= BATCH_SIZE
         /\ calls[k].outcome = "ok" =>
              LET kept == FromCall(k)
              IN /\ Len(kept) = Len(calls[k].texts)
                 /\ \A j \in 1..Len(kept) :
                      /\ kept[j].content = calls[k].texts[j]
                      /\ kept[j]["embedding"] = calls[k].embeddings[j]

C8_Witness ==
  /\ Returned
  /\ Len(all_found_files) > BATCH_SIZE
  /\ Len(calls) >= 3
  /\ \E k \in 1..Len(calls) : calls[k].outcome = "ok" /\ Len(calls[k].texts) = 100
  /\ \E k \in 1..Len(calls) : calls[k].outcome = "raise"
  /\ Len(all_processed_chunks) > 100
  /\ Len(all_processed_chunks) < stats.chunks_created

\* ------------------------------------------------------------------------ C9
\* C9: when a run that discovered at least one path has returned,
\* files_processed + files_failed is the number of discovered paths, with
\* every discovered path in exactly one of the two counts; chunks_created is
\* the sum of the chunk counts of the processed files; and
\* 0 <= chunks_indexed <= chunks_created.
C9_StatisticsAddUp ==
  Returned =>
    LET ok  == { k \in 1..Len(all_found_files) : Processable(all_found_files[k]) }
        bad == (1..Len(all_found_files)) \ ok
    IN /\ stats.files_processed + stats.files_failed = Len(all_found_files)
       /\ stats.files_processed = Cardinality(ok)
       /\ stats.files_failed = Cardinality(bad)
       /\ stats.chunks_created =
            Sum([k \in 1..Len(all_found_files) |->
                   IF k \in ok THEN ChunkCountOf(all_found_files[k]) ELSE 0],
                Len(all_found_files))
       /\ 0 <= stats.chunks_indexed
       /\ stats.chunks_indexed <= stats.chunks_created
       /\ result["stats"] = stats

C9_Witness ==
  /\ Returned
  /\ stats.files_failed >= 1
  /\ stats.files_processed >= BATCH_SIZE
  /\ Len(all_found_files) > BATCH_SIZE
  /\ stats.chunks_indexed > 0
  /\ stats.chunks_indexed < stats.chunks_created

\* ----------------------------------------------------------------------- C10
\* C10: for a loaded table of n >= 1 rows the perplexity slider is built with
\* min_value 5 <= value <= max_value, where max_value is min(50, n - 1) for
\* n > 1 and 50 for n = 1 and value is min(30, n - 1) for n > 1 and 30 for
\* n = 1, so that the script goes on to the reduction.
C10_SliderBoundsConsistent ==
  (rows >= 1 /\ vpc \notin {"idle", "load", "slider"}) =>
    /\ slider.min_value = 5
    /\ slider.max_value = (IF rows > 1 THEN Min(50, rows - 1) ELSE 50)
    /\ slider.value = (IF rows > 1 THEN Min(30, rows - 1) ELSE 30)
    /\ slider.min_value <= slider.value
    /\ slider.value <= slider.max_value
    /\ vpc # "crashed"

====
